---- MODULE Spec2Model ----
(***************************************************************************)
(* SnapTalk backend: friend-request handlers (backend/routes/friends.js),  *)
(* message handlers (backend/routes/messages.js) and the socket channel    *)
(* (backend/server.js).  Every await of a handler is a separate step; a    *)
(* findByIdAndUpdate is one atomic single-document update.                 *)
(***************************************************************************)
EXTENDS Integers, Sequences, FiniteSets, Bags, TLC

MaxInFlight == 2
MaxOps == 3
MaxMsgs == 2
MaxSockMsgs == 1
MaxStore == 3
MaxPosts == 2
MaxLikeOps == 2
DefaultPostLimit == 10
DefaultLimit == 50

\* Three registered accounts; 0 is a well-formed id that names no account.
Users == {1, 2, 3}
NoUser == 0
Ids == Users \cup {NoUser}
\* Two client connections.
Sockets == {1, 2}
NoSocket == 0
NoMsg == 0

VARIABLES friends, friendRequests, sentFriendRequests, reqs, last, ops,
          messages, created, fetch, marking, convs,
          conn, activeUsers, socketToUser, sending, emitted, acks,
          posts, liking, listed

storevars == <<messages, created>>
sockvars == <<conn, activeUsers, socketToUser, sending, emitted, acks>>
postvars == <<posts, liking, listed>>
msgvars == <<messages, created, fetch, marking, convs, conn, activeUsers, socketToUser, sending,
             emitted, acks, postvars>>
frvars == <<friends, friendRequests, sentFriendRequests, reqs, ops>>
vars == <<friends, friendRequests, sentFriendRequests, reqs, last, ops,
          messages, created, fetch, marking, convs,
          conn, activeUsers, socketToUser, sending, emitted, acks,
          posts, liking, listed>>

\* ---------------------------------------------------------------- helpers
Has(seq, x) == \E i \in 1..Len(seq) : seq[i] = x
Count(seq, x) == Cardinality({i \in 1..Len(seq) : seq[i] = x})
Push(seq, x) == Append(seq, x)
Pull(seq, x) == SelectSeq(seq, LAMBDA e : e # x)

Exists(id) == id \in Users

\* User.findById(id): the three lists of the stored document
NoDoc == [friends |-> {}, friendRequests |-> <<>>, sentFriendRequests |-> <<>>]
FindById(id) ==
  IF Exists(id)
  THEN [friends |-> friends[id], friendRequests |-> friendRequests[id],
        sentFriendRequests |-> sentFriendRequests[id]]
  ELSE NoDoc

\* A handler in flight has passed its checks and still owes the updates of
\* its Promise.all that are listed in todo.  reqs is the bag of the handlers
\* in flight (two identical requests can run at once).
NewReq(op, me, id) == [op |-> op, me |-> me, other |-> id, todo |-> {"current", "target"}]
InFlight == BagToSet(reqs)

\* res.status(code).json(...): the handler ends and its response is recorded
Response(op, me, id, code) == [op |-> op, me |-> me, other |-> id, status |-> code]
NoResponse == Response("none", NoUser, NoUser, 0)
\* The answer of a message or post handler: the route and the status code
Reply(op, code) == Response(op, NoUser, NoUser, code)

\* GET /:userId handler in flight; one such fetch runs at a time
IdleFetch == [me |-> NoUser, other |-> NoUser, pc |-> "idle", shown |-> {}]

\* PUT /:messageId/read handler awaiting message.save(); one runs at a time
IdleMark == [me |-> NoUser, id |-> NoMsg]

\* What GET /conversations returned last: to whom, and the rows
NoConversations == [to |-> NoUser, rows |-> {}]

\* What a post listing returned last: to whom, and the ids of the posts
NoListing == [to |-> NoUser, route |-> "none", posts |-> {}]

Quiescent == reqs = EmptyBag

Init ==
  /\ friends = [u \in Users |-> {}]
  /\ friendRequests = [u \in Users |-> <<>>]
  /\ sentFriendRequests = [u \in Users |-> <<>>]
  /\ reqs = EmptyBag
  /\ last = NoResponse
  /\ ops = 0
  /\ messages = <<>>
  /\ created = 0
  /\ fetch = IdleFetch
  /\ marking = IdleMark
  /\ convs = NoConversations
  /\ posts = <<>>
  /\ liking = EmptyBag
  /\ listed = NoListing
  /\ conn = [c \in Sockets |-> "new"]
  /\ activeUsers = [u \in Ids |-> NoSocket]
  /\ socketToUser = [c \in Sockets |-> NoUser]
  /\ sending = [c \in Sockets |-> NoMsg]
  /\ emitted = {}
  /\ acks = [c \in Sockets |-> "none"]

\* ------------------------------------------------------ reads and checks
\* The handlers read both users and then check the caller's document; users
\* are never deleted, so the two reads are one step: the read of the caller.
\* The step either answers an error or leaves the handler owing its updates.

\* Mutants of the request checks: the received-request check left out, and
\* the self-request check left out.
RequestCheck_NoReceivedCheck(me, id, doc) ==
  IF id = me THEN 400
  ELSE IF ~Exists(id) THEN 404
  ELSE IF id \in doc.friends THEN 400
  ELSE IF Has(doc.sentFriendRequests, id) THEN 400
  ELSE 200

RequestCheck_NoSelfCheck(me, id, doc) ==
  IF ~Exists(id) THEN 404
  ELSE IF id \in doc.friends THEN 400
  ELSE IF Has(doc.sentFriendRequests, id) THEN 400
  ELSE IF Has(doc.friendRequests, id) THEN 400
  ELSE 200

\* POST /request/:id
RequestCheck(me, id, doc) ==
  IF id = me THEN 400
  ELSE IF ~Exists(id) THEN 404
  ELSE IF id \in doc.friends THEN 400
  ELSE IF Has(doc.sentFriendRequests, id) THEN 400
  ELSE IF Has(doc.friendRequests, id) THEN 400
  ELSE 200

\* Mutant: accept without the lookup of the request.
AcceptCheck_NoLookup(me, id, doc) ==
  IF ~Exists(id) THEN 404 ELSE 200

\* POST /accept/:id
AcceptCheck(me, id, doc) ==
  IF ~Exists(id) THEN 404
  ELSE IF ~Has(doc.friendRequests, id) THEN 400
  ELSE 200

\* Mutant: decline without the lookup of the request.
DeclineCheck_NoLookup(me, id, doc) ==
  IF ~Exists(id) THEN 404 ELSE 200

\* POST /decline/:id
DeclineCheck(me, id, doc) ==
  IF ~Exists(id) THEN 404
  ELSE IF ~Has(doc.friendRequests, id) THEN 400
  ELSE 200

\* DELETE /:id
RemoveCheck(me, id, doc) ==
  IF ~Exists(id) THEN 404
  ELSE IF id \notin doc.friends THEN 400
  ELSE 200

Check(op, me, id, doc) ==
  CASE op = "request" -> RequestCheck(me, id, doc)
    [] op = "accept" -> AcceptCheck(me, id, doc)
    [] op = "decline" -> DeclineCheck(me, id, doc)
    [] op = "remove" -> RemoveCheck(me, id, doc)

Handle(op, me, id) ==
  /\ BagCardinality(reqs) < MaxInFlight
  /\ ops < MaxOps
  /\ ops' = ops + 1
  /\ LET code == Check(op, me, id, FindById(me))
     IN IF code = 200
        THEN /\ reqs' = reqs (+) SetToBag({NewReq(op, me, id)})
             /\ UNCHANGED last
        ELSE /\ last' = Response(op, me, id, code)
             /\ UNCHANGED reqs
  /\ UNCHANGED <<friends, friendRequests, sentFriendRequests, msgvars>>

RequestRead(me, id) == me \in Users /\ Handle("request", me, id)
AcceptRead(me, id) == me \in Users /\ Handle("accept", me, id)
DeclineRead(me, id) == me \in Users /\ Handle("decline", me, id)
RemoveRead(me, id) == me \in Users /\ Handle("remove", me, id)

\* ------------------------------------- the two updates of each Promise.all
\* Each findByIdAndUpdate is one atomic update of one user document; db is
\* the three lists of every user.
Db == [friends |-> friends, friendRequests |-> friendRequests,
       sentFriendRequests |-> sentFriendRequests]

\* $push: { sentFriendRequests: { to: targetUserId } } on the caller
RequestPushSent(db, me, id) ==
  [db EXCEPT !.sentFriendRequests[me] = Push(@, id)]

\* $push: { friendRequests: { from: currentUserId } } on the target
RequestPushReceived(db, me, id) ==
  [db EXCEPT !.friendRequests[id] = Push(@, me)]

\* $pull friendRequests {from: sender}, $addToSet friends sender, on the caller
AcceptOnCurrent(db, me, id) ==
  [db EXCEPT !.friendRequests[me] = Pull(@, id), !.friends[me] = @ \cup {id}]

\* Mutant: the accept leaves the sender's sent entry in place.
AcceptOnSender_NoPull(db, me, id) ==
  [db EXCEPT !.friends[id] = @ \cup {me}]

\* $pull sentFriendRequests {to: caller}, $addToSet friends caller, on the sender
AcceptOnSender(db, me, id) ==
  [db EXCEPT !.sentFriendRequests[id] = Pull(@, me), !.friends[id] = @ \cup {me}]

\* $pull friendRequests {from: sender} on the caller
DeclineOnCurrent(db, me, id) ==
  [db EXCEPT !.friendRequests[me] = Pull(@, id)]

\* Mutant: the second decline update pulls from the caller's own sent list.
DeclineOnSender_OwnList(db, me, id) ==
  [db EXCEPT !.sentFriendRequests[me] = Pull(@, id)]

\* $pull sentFriendRequests {to: caller} on the sender
DeclineOnSender(db, me, id) ==
  [db EXCEPT !.sentFriendRequests[id] = Pull(@, me)]

\* $pull friends friendUserId on the caller
RemoveOnCurrent(db, me, id) == [db EXCEPT !.friends[me] = @ \ {id}]

\* $pull friends currentUserId on the friend
RemoveOnFriend(db, me, id) == [db EXCEPT !.friends[id] = @ \ {me}]

Effect(op, which, db, me, id) ==
  CASE op = "request" /\ which = "current" -> RequestPushSent(db, me, id)
    [] op = "request" /\ which = "target" -> RequestPushReceived(db, me, id)
    [] op = "accept" /\ which = "current" -> AcceptOnCurrent(db, me, id)
    [] op = "accept" /\ which = "target" -> AcceptOnSender(db, me, id)
    [] op = "decline" /\ which = "current" -> DeclineOnCurrent(db, me, id)
    [] op = "decline" /\ which = "target" -> DeclineOnSender(db, me, id)
    [] op = "remove" /\ which = "current" -> RemoveOnCurrent(db, me, id)
    [] op = "remove" /\ which = "target" -> RemoveOnFriend(db, me, id)

\* The handler r in flight applies one of the updates it owes; when both have
\* been applied it answers success.
Apply(r, which) ==
  /\ r \in InFlight /\ which \in r.todo
  /\ LET db == Effect(r.op, which, Db, r.me, r.other)
         left == r.todo \ {which}
         others == reqs (-) SetToBag({r})
     IN /\ friends' = db.friends
        /\ friendRequests' = db.friendRequests
        /\ sentFriendRequests' = db.sentFriendRequests
        /\ IF left = {}
           THEN /\ reqs' = others
                /\ last' = Response(r.op, r.me, r.other, 200)
           ELSE /\ reqs' = others (+) SetToBag({[r EXCEPT !.todo = left]})
                /\ UNCHANGED last
  /\ UNCHANGED <<ops, msgvars>>

RequestUpdateCurrent(r) == r.op = "request" /\ Apply(r, "current")
RequestUpdateTarget(r) == r.op = "request" /\ Apply(r, "target")
AcceptUpdateCurrent(r) == r.op = "accept" /\ Apply(r, "current")
AcceptUpdateSender(r) == r.op = "accept" /\ Apply(r, "target")
DeclineUpdateCurrent(r) == r.op = "decline" /\ Apply(r, "current")
DeclineUpdateSender(r) == r.op = "decline" /\ Apply(r, "target")
RemoveUpdateCurrent(r) == r.op = "remove" /\ Apply(r, "current")
RemoveUpdateFriend(r) == r.op = "remove" /\ Apply(r, "target")

FriendNext ==
  \/ \E me \in Users, id \in Ids : RequestRead(me, id)
  \/ \E me \in Users, id \in Ids : AcceptRead(me, id)
  \/ \E me \in Users, id \in Ids : DeclineRead(me, id)
  \/ \E me \in Users, id \in Ids : RemoveRead(me, id)
  \/ \E r \in InFlight : RequestUpdateCurrent(r)
  \/ \E r \in InFlight : RequestUpdateTarget(r)
  \/ \E r \in InFlight : AcceptUpdateCurrent(r)
  \/ \E r \in InFlight : AcceptUpdateSender(r)
  \/ \E r \in InFlight : DeclineUpdateCurrent(r)
  \/ \E r \in InFlight : DeclineUpdateSender(r)
  \/ \E r \in InFlight : RemoveUpdateCurrent(r)
  \/ \E r \in InFlight : RemoveUpdateFriend(r)

Next == FriendNext

Spec == Init /\ [][Next]_vars

\* Accepts and declines only, run against requests that were sent and stored
\* one after the other: between two users at most one direction is pending.
Sent == {ps \in SUBSET ((Users \X Users) \ {<<u, u>> : u \in Users}) :
           \A p \in ps : <<p[2], p[1]>> \notin ps}

ToSeq(S) == IF 1 \in S THEN <<1>> \o SelectSeq(<<2, 3>>, LAMBDA n : n \in S)
            ELSE SelectSeq(<<2, 3>>, LAMBDA n : n \in S)

InitAnswer ==
  /\ friends = [u \in Users |-> {}]
  /\ \E ps \in Sent :
       /\ sentFriendRequests = [u \in Users |-> ToSeq({v \in Users : <<u, v>> \in ps})]
       /\ friendRequests = [u \in Users |-> ToSeq({v \in Users : <<v, u>> \in ps})]
  /\ reqs = EmptyBag
  /\ last = NoResponse
  /\ ops = 0
  /\ messages = <<>>
  /\ created = 0
  /\ fetch = IdleFetch
  /\ marking = IdleMark
  /\ convs = NoConversations
  /\ posts = <<>>
  /\ liking = EmptyBag
  /\ listed = NoListing
  /\ conn = [c \in Sockets |-> "new"]
  /\ activeUsers = [u \in Ids |-> NoSocket]
  /\ socketToUser = [c \in Sockets |-> NoUser]
  /\ sending = [c \in Sockets |-> NoMsg]
  /\ emitted = {}
  /\ acks = [c \in Sockets |-> "none"]

AnswerNext ==
  \/ \E me \in Users, id \in Ids : AcceptRead(me, id)
  \/ \E me \in Users, id \in Ids : DeclineRead(me, id)
  \/ \E r \in InFlight : AcceptUpdateCurrent(r)
  \/ \E r \in InFlight : AcceptUpdateSender(r)
  \/ \E r \in InFlight : DeclineUpdateCurrent(r)
  \/ \E r \in InFlight : DeclineUpdateSender(r)

SpecAnswer == InitAnswer /\ [][AnswerNext]_vars

\* ================================================================ messages
\* The friend lists during messaging: accepted friendships, with no request
\* pending and no friend handler running: nobody is friends, or users 1 and
\* 2 are.
FriendGraph(ps) == [u \in Users |-> {v \in Users : {u, v} \in ps}]
FriendGraphs == {FriendGraph({}), FriendGraph({{1, 2}})}

InitMsg ==
  /\ friends \in FriendGraphs
  /\ friendRequests = [u \in Users |-> <<>>]
  /\ sentFriendRequests = [u \in Users |-> <<>>]
  /\ reqs = EmptyBag
  /\ last = NoResponse
  /\ ops = 0
  /\ messages = <<>>
  /\ created = 0
  /\ fetch = IdleFetch
  /\ marking = IdleMark
  /\ convs = NoConversations
  /\ posts = <<>>
  /\ liking = EmptyBag
  /\ listed = NoListing
  /\ conn = [c \in Sockets |-> "new"]
  /\ activeUsers = [u \in Ids |-> NoSocket]
  /\ socketToUser = [c \in Sockets |-> NoUser]
  /\ sending = [c \in Sockets |-> NoMsg]
  /\ emitted = {}
  /\ acks = [c \in Sockets |-> "none"]

\* Message contents offered by clients, and String.prototype.trim on them.
Contents == {"hi", " hi ", "  "}
Trim(c) == CASE c = " hi " -> "hi" [] c = "  " -> "" [] OTHER -> c

\* new Message({sender, receiver, content}) + save: the stored document.  The
\* fields via and friendsAtSend are history: the write path, and whether the
\* receiver was in the sender's friends list when the send was handled.
\* createdAt is the creation timestamp; saves are stamped in the order they
\* happen, so the number of the save stands for the clock reading.
NewMessage(id, s, r, c, via) ==
  [id |-> id, sender |-> s, receiver |-> r, content |-> c, isRead |-> FALSE,
   createdAt |-> id,
   via |-> via, friendsAtSend |-> (r \in Users /\ s \in Users /\ r \in friends[s])]

Save(m) ==
  /\ messages' = Append(messages, m)
  /\ created' = created + 1

\* POST /api/messages: validation, receiver lookup, friendship check, save
PostCheck(me, receiver, content) ==
  IF Trim(content) = "" THEN 400
  ELSE IF ~Exists(receiver) THEN 404
  ELSE IF receiver \notin friends[me] /\ receiver # me THEN 403
  ELSE 201

PostMessage(me, receiver, content) ==
  /\ created < MaxMsgs
  /\ LET code == PostCheck(me, receiver, content)
     IN /\ last' = Reply("post", code)
        /\ IF code = 201
           THEN Save(NewMessage(created + 1, me, receiver, Trim(content), "rest"))
           ELSE UNCHANGED storevars
  /\ UNCHANGED <<frvars, fetch, marking, convs, sockvars, postvars>>

\* GET /api/messages/:userId ---------------------------------------------
Between(m, a, b) ==
  \/ m.sender = a /\ m.receiver = b
  \/ m.sender = b /\ m.receiver = a

\* find(...).sort({createdAt: -1}).limit(limit).skip(skip): the ids of the page
Page(me, other, page, limit) ==
  LET conv == SelectSeq(messages, LAMBDA m : Between(m, me, other))
      skip == (page - 1) * limit
  IN {conv[Len(conv) - i].id : i \in {j \in skip..(skip + limit - 1) : j < Len(conv)}}

FetchFind(me, other, page, limit) ==
  /\ fetch.pc = "idle"
  /\ IF ~Exists(other)
     THEN /\ last' = Reply("fetch", 404)
          /\ UNCHANGED fetch
     ELSE /\ fetch' = [me |-> me, other |-> other, pc |-> "update",
                       shown |-> Page(me, other, page, limit)]
          /\ UNCHANGED last
  /\ UNCHANGED <<frvars, storevars, marking, convs, sockvars, postvars>>

\* Mutant: updateOne in place of updateMany, only the oldest match is marked.
MarkRead_One(msgs, me, other) ==
  LET hit == {i \in 1..Len(msgs) :
                msgs[i].sender = other /\ msgs[i].receiver = me /\ ~msgs[i].isRead}
  IN [i \in 1..Len(msgs) |->
        IF i \in hit /\ \A j \in hit : i <= j
        THEN [msgs[i] EXCEPT !.isRead = TRUE]
        ELSE msgs[i]]

\* updateMany({sender: other, receiver: me, isRead: false}, {isRead: true})
MarkRead(msgs, me, other) ==
  [i \in 1..Len(msgs) |->
     IF msgs[i].sender = other /\ msgs[i].receiver = me /\ ~msgs[i].isRead
     THEN [msgs[i] EXCEPT !.isRead = TRUE]
     ELSE msgs[i]]

FetchUpdateMany ==
  /\ fetch.pc = "update"
  /\ messages' = MarkRead(messages, fetch.me, fetch.other)
  /\ fetch' = [fetch EXCEPT !.pc = "count"]
  /\ UNCHANGED <<frvars, last, created, marking, convs, sockvars, postvars>>

\* countDocuments, then the response
FetchRespond ==
  /\ fetch.pc = "count"
  /\ last' = Reply("fetch", 200)
  /\ fetch' = IdleFetch
  /\ UNCHANGED <<frvars, storevars, marking, convs, sockvars, postvars>>

\* Message.findById(messageId)
Stored(id) == \E i \in 1..Len(messages) : messages[i].id = id
FindMessage(id) == messages[CHOOSE i \in 1..Len(messages) : messages[i].id = id]

\* PUT /api/messages/:messageId/read -----------------------------------
MarkAsReadCheck(me, id) ==
  IF ~Stored(id) THEN 404
  ELSE IF FindMessage(id).receiver # me THEN 403
  ELSE 200

\* findById and the checks; an unread message goes on to message.save()
MarkAsReadFind(me, id) ==
  /\ marking = IdleMark
  /\ LET code == MarkAsReadCheck(me, id)
     IN IF code = 200 /\ ~FindMessage(id).isRead
        THEN /\ marking' = [me |-> me, id |-> id]
             /\ UNCHANGED last
        ELSE /\ last' = Reply("read", code)
             /\ UNCHANGED marking
  /\ UNCHANGED <<frvars, storevars, fetch, convs, sockvars, postvars>>

\* Mutant: the save writes the negation of the stored flag.
SetRead_Toggle(msgs, id) ==
  [i \in 1..Len(msgs) |->
     IF msgs[i].id = id THEN [msgs[i] EXCEPT !.isRead = ~msgs[i].isRead] ELSE msgs[i]]

\* message.save(): the modified paths (isRead, readAt) are set on the stored
\* document with this id
SetRead(msgs, id) ==
  [i \in 1..Len(msgs) |->
     IF msgs[i].id = id THEN [msgs[i] EXCEPT !.isRead = TRUE] ELSE msgs[i]]

\* When the document was deleted meanwhile the save updates nothing; whether
\* it then throws (answer 500) depends on the library version.
MarkAsReadSave(code) ==
  /\ marking # IdleMark
  /\ code = 500 => ~Stored(marking.id)
  /\ messages' = SetRead(messages, marking.id)
  /\ last' = Reply("read", code)
  /\ marking' = IdleMark
  /\ UNCHANGED <<frvars, created, fetch, convs, sockvars, postvars>>

\* DELETE /api/messages/:messageId --------------------------------------
\* Mutant: no sender check.
DeleteCheck_NoOwner(me, id) ==
  IF ~Stored(id) THEN 404 ELSE 200

DeleteCheck(me, id) ==
  IF ~Stored(id) THEN 404
  ELSE IF FindMessage(id).sender # me THEN 403
  ELSE 200

\* findById, the sender check and findByIdAndDelete.  The sender of a stored
\* message never changes, so the check and the delete are taken in one step.
DeleteMessage(me, id) ==
  /\ LET code == DeleteCheck(me, id)
     IN /\ last' = Reply("delete", code)
        /\ IF code = 200
           THEN messages' = SelectSeq(messages, LAMBDA m : m.id # id)
           ELSE UNCHANGED messages
  /\ UNCHANGED <<frvars, created, fetch, marking, convs, sockvars, postvars>>

\* GET /api/messages/unread/count: the messages the query counts
UnreadCounted(u) ==
  {i \in 1..Len(messages) : messages[i].receiver = u /\ ~messages[i].isRead}
UnreadCount(u) == Cardinality(UnreadCounted(u))

\* GET /api/messages/conversations: the aggregation pipeline
OtherUser(m, u) == IF m.sender = u THEN m.receiver ELSE m.sender
Involves(m, u) == m.sender = u \/ m.receiver = u
Group(u, p) ==
  {i \in 1..Len(messages) :
     Involves(messages[i], u) /\ OtherUser(messages[i], u) = p}

\* $match: the stored messages sent or received by u, in store order
Matched(u) == SelectSeq(messages, LAMBDA m : Involves(m, u))

\* Mutant: $sort {createdAt: 1}, oldest first.
SortByCreatedAt_Ascending(seq) ==
  LET rank(i) == Cardinality({j \in 1..Len(seq) :
                    \/ seq[j].createdAt < seq[i].createdAt
                    \/ seq[j].createdAt = seq[i].createdAt /\ j < i})
  IN <<>> \o [k \in 1..Len(seq) |-> seq[CHOOSE i \in 1..Len(seq) : rank(i) = k - 1]]

\* $sort {createdAt: -1}: newest first, equal stamps in input order
SortByCreatedAt(seq) ==
  LET rank(i) == Cardinality({j \in 1..Len(seq) :
                    \/ seq[j].createdAt > seq[i].createdAt
                    \/ seq[j].createdAt = seq[i].createdAt /\ j < i})
  IN <<>> \o [k \in 1..Len(seq) |-> seq[CHOOSE i \in 1..Len(seq) : rank(i) = k - 1]]

\* $group by otherUser: $first of the sorted documents, $sum of the unread
\* ones addressed to u
GroupFirst(sorted, u, p) ==
  LET g == {i \in 1..Len(sorted) : OtherUser(sorted[i], u) = p}
  IN sorted[CHOOSE i \in g : \A j \in g : i <= j]

\* Mutant: the $sum counts the unread messages of the group in both directions.
GroupUnread_BothDirections(sorted, u, p) ==
  Cardinality({i \in 1..Len(sorted) :
                 OtherUser(sorted[i], u) = p /\ ~sorted[i].isRead})

GroupUnread(sorted, u, p) ==
  Cardinality({i \in 1..Len(sorted) :
                 /\ OtherUser(sorted[i], u) = p
                 /\ sorted[i].receiver = u /\ ~sorted[i].isRead})

ConversationRow(u, p) ==
  LET sorted == SortByCreatedAt(Matched(u))
  IN [user |-> p,
      lastMessage |-> GroupFirst(sorted, u, p).id,
      unreadCount |-> GroupUnread(sorted, u, p)]

\* $lookup + $unwind: a group whose _id is no stored user yields no row
Conversations(u) ==
  {ConversationRow(u, p) : p \in {q \in Users : Group(u, q) # {}}}

\* ?page=&limit= of the query string
Pages == {1, 2}
Limits == {1, DefaultLimit}

MsgNext ==
  \/ \E me \in Users, r \in Ids, c \in Contents : PostMessage(me, r, c)
  \/ \E me \in Users, o \in Ids, p \in Pages, l \in Limits : FetchFind(me, o, p, l)
  \/ FetchUpdateMany
  \/ FetchRespond

SpecMsg == InitMsg /\ [][MsgNext]_vars

\* The handlers that change or remove one stored message
MsgEditNext ==
  \/ \E me \in Users, id \in 0..created : MarkAsReadFind(me, id)
  \/ \E code \in {200, 500} : MarkAsReadSave(code)
  \/ \E me \in Users, id \in 0..created : DeleteMessage(me, id)

\* ... next to the send
EditNext ==
  \/ \E me \in Users, r \in Ids, c \in Contents : PostMessage(me, r, c)
  \/ MsgEditNext

SpecEdit == InitMsg /\ [][EditNext]_vars

\* Every REST message handler that writes
AllMsgNext == MsgNext \/ MsgEditNext

SpecAllMsg == InitMsg /\ [][AllMsgNext]_vars

\* ------------------------------------------- the aggregation on its own
\* GET /api/messages/conversations answers from the store as it is.  The
\* stores: up to MaxStore messages in creation order, each between any two
\* ids (the channel stores what it is sent), read or unread.
StoredMessage(i, s, r, read) ==
  [NewMessage(i, s, r, "hi", "socket") EXCEPT !.isRead = read]
Store(n, f) == [i \in 1..n |-> StoredMessage(i, f[i][1], f[i][2], f[i][3])]

InitConv ==
  /\ friends = FriendGraph({})
  /\ friendRequests = [u \in Users |-> <<>>]
  /\ sentFriendRequests = [u \in Users |-> <<>>]
  /\ reqs = EmptyBag
  /\ last = NoResponse
  /\ ops = 0
  /\ \E n \in 0..MaxStore :
       \E f \in [1..n -> Users \X Users \X BOOLEAN] : messages = Store(n, f)
  /\ created = Len(messages)
  /\ fetch = IdleFetch
  /\ marking = IdleMark
  /\ convs = NoConversations
  /\ conn = [c \in Sockets |-> "new"]
  /\ activeUsers = [u \in Ids |-> NoSocket]
  /\ socketToUser = [c \in Sockets |-> NoUser]
  /\ sending = [c \in Sockets |-> NoMsg]
  /\ emitted = {}
  /\ acks = [c \in Sockets |-> "none"]
  /\ posts = <<>>
  /\ liking = EmptyBag
  /\ listed = NoListing

GetConversations(u) ==
  /\ convs' = [to |-> u, rows |-> Conversations(u)]
  /\ last' = Reply("conversations", 200)
  /\ UNCHANGED <<frvars, storevars, fetch, marking, sockvars, postvars>>

ConvNext == \E u \in Users : GetConversations(u)

SpecConv == InitConv /\ [][ConvNext]_vars

\* =================================================================== posts
\* POST /api/posts: the stored post.  v is the document version (__v) that
\* save() keeps; createdAt as for messages.
Privacies == {"public", "friends", "private"}
NewPost(id, author, privacy) ==
  [id |-> id, author |-> author, privacy |-> privacy, likes |-> <<>>, v |-> 0,
   createdAt |-> id]

CreatePost(me, privacy) ==
  /\ Len(posts) < MaxPosts
  /\ posts' = Append(posts, NewPost(Len(posts) + 1, me, privacy))
  /\ last' = Reply("create", 201)
  /\ UNCHANGED <<frvars, storevars, fetch, marking, convs, sockvars, liking, listed>>

\* .sort({createdAt: -1}).limit(limit).skip(skip) of the posts that match
PostPage(matching, page, limit) ==
  LET sorted == SortByCreatedAt(matching)
      skip == (page - 1) * limit
  IN {sorted[i].id : i \in {j \in 1..Len(sorted) : j > skip /\ j <= skip + limit}}

\* Mutant: the feed takes every post of a friend.
FeedMatch_AnyPrivacy(me, friendIds, p) ==
  p.author = me \/ p.author \in friendIds

\* GET /api/posts/feed: own posts, and public or friends posts of friends
FeedMatch(me, friendIds, p) ==
  \/ p.author = me
  \/ p.author \in friendIds /\ p.privacy \in {"public", "friends"}

GetFeed(me, page, limit) ==
  /\ listed' = [to |-> me, route |-> "feed",
                posts |-> PostPage(SelectSeq(posts, LAMBDA p :
                                     FeedMatch(me, FindById(me).friends, p)),
                                   page, limit)]
  /\ last' = Reply("feed", 200)
  /\ UNCHANGED <<frvars, storevars, fetch, marking, convs, sockvars, posts, liking>>

\* GET /api/posts/user/:userId: the privacy filter and the query
UserPostsMatch(me, userId, friendIds, p) ==
  LET isFriend == userId \in friendIds
      isOwnProfile == userId = me
  IN /\ p.author = userId
     /\ IF isOwnProfile THEN TRUE
        ELSE IF isFriend THEN p.privacy \in {"public", "friends"}
        ELSE p.privacy = "public"

GetUserPosts(me, userId, page, limit) ==
  /\ IF ~Exists(userId)
     THEN /\ last' = Reply("userposts", 404)
          /\ UNCHANGED listed
     ELSE /\ listed' = [to |-> me, route |-> "user",
                        posts |-> PostPage(SelectSeq(posts, LAMBDA p :
                                             UserPostsMatch(me, userId,
                                                            FindById(me).friends, p)),
                                           page, limit)]
          /\ last' = Reply("userposts", 200)
  /\ UNCHANGED <<frvars, storevars, fetch, marking, convs, sockvars, posts, liking>>

\* POST /api/posts/:id/like ------------------------------------------------
PostStored(id) == \E i \in 1..Len(posts) : posts[i].id = id
FindPost(id) == posts[CHOOSE i \in 1..Len(posts) : posts[i].id = id]

\* likes.findIndex(like => like.user === me)
LikeIndex(likes, me) ==
  IF Has(likes, me) THEN CHOOSE i \in 1..Len(likes) :
                           likes[i] = me /\ \A j \in 1..(i - 1) : likes[j] # me
  ELSE 0

\* post.likes.splice(likeIndex, 1) or post.likes.push({user: me}) on the
\* document the handler holds
Splice(likes, i) == SubSeq(likes, 1, i - 1) \o SubSeq(likes, i + 1, Len(likes))
ToggleLike(likes, me) ==
  IF LikeIndex(likes, me) > 0 THEN Splice(likes, LikeIndex(likes, me))
  ELSE Append(likes, me)

\* findById and the change in memory; the handler then awaits post.save()
LikeFind(me, id) ==
  /\ ops < MaxLikeOps
  /\ BagCardinality(liking) < MaxInFlight
  /\ ops' = ops + 1
  /\ IF ~PostStored(id)
     THEN /\ last' = Reply("like", 404)
          /\ UNCHANGED liking
     ELSE /\ liking' = liking (+) SetToBag({
               [me |-> me, post |-> id, v |-> FindPost(id).v,
                unlike |-> LikeIndex(FindPost(id).likes, me) > 0,
                likes |-> ToggleLike(FindPost(id).likes, me)]})
          /\ UNCHANGED last
  /\ UNCHANGED <<friends, friendRequests, sentFriendRequests, reqs, storevars, fetch,
                 marking, convs, sockvars, posts, listed>>

\* post.save() sends the change, not the document: a push is sent as $push
\* and applies to the stored array whatever it holds by now; a splice is sent
\* as $set of the whole array together with the version the handler read,
\* and fails when the stored version has moved on.
SavePush(p, me) == [p EXCEPT !.likes = Append(p.likes, me), !.v = p.v + 1]
SaveSplice(p, likes) == [p EXCEPT !.likes = likes, !.v = p.v + 1]

LikeSave(r) ==
  /\ r \in BagToSet(liking)
  /\ liking' = liking (-) SetToBag({r})
  /\ LET stale == r.unlike /\ FindPost(r.post).v # r.v
     IN /\ last' = Reply("like", IF stale THEN 500 ELSE 200)
        /\ posts' = [i \in 1..Len(posts) |->
                       IF posts[i].id # r.post \/ stale THEN posts[i]
                       ELSE IF r.unlike THEN SaveSplice(posts[i], r.likes)
                       ELSE SavePush(posts[i], r.me)]
  /\ UNCHANGED <<frvars, storevars, fetch, marking, convs, sockvars, listed>>

PostPages == {1, 2}
PostLimits == {1, DefaultPostLimit}

\* Posting and listing
ListNext ==
  \/ \E me \in Users, pr \in Privacies : CreatePost(me, pr)
  \/ \E me \in Users, pg \in PostPages, l \in PostLimits : GetFeed(me, pg, l)
  \/ \E me \in Users, u \in Ids, pg \in PostPages, l \in PostLimits :
        GetUserPosts(me, u, pg, l)

SpecList == InitMsg /\ [][ListNext]_vars

\* Posting and liking
LikeNext ==
  \/ \E me \in Users, pr \in Privacies : CreatePost(me, pr)
  \/ \E me \in Users, id \in 0..MaxPosts : LikeFind(me, id)
  \/ \E r \in BagToSet(liking) : LikeSave(r)

SpecLike == InitMsg /\ [][LikeNext]_vars

\* ========================================================== socket channel
\* io.on('connection'): a new connection with its own socket id
SocketConnect(c) ==
  /\ conn[c] = "new"
  /\ conn' = [conn EXCEPT ![c] = "open"]
  /\ UNCHANGED <<frvars, last, storevars, fetch, marking, convs, postvars, activeUsers, socketToUser,
                 sending, emitted, acks>>

\* Mutant: a user id that is registered keeps its socket.
Join_KeepFirst(c, userId) ==
  /\ conn[c] = "open"
  /\ activeUsers' = IF activeUsers[userId] = NoSocket
                    THEN [activeUsers EXCEPT ![userId] = c]
                    ELSE activeUsers
  /\ socketToUser' = [socketToUser EXCEPT ![c] = userId]
  /\ UNCHANGED <<frvars, last, storevars, fetch, marking, convs, postvars, conn, sending,
                 emitted, acks>>

\* socket.on('join', userId)
Join(c, userId) ==
  /\ conn[c] = "open"
  /\ activeUsers' = [activeUsers EXCEPT ![userId] = c]
  /\ socketToUser' = [socketToUser EXCEPT ![c] = userId]
  /\ UNCHANGED <<frvars, last, storevars, fetch, marking, convs, postvars, conn, sending, emitted, acks>>

\* socket.on('disconnect'); a socket id is never used again
Disconnect(c) ==
  /\ conn[c] = "open"
  /\ conn' = [conn EXCEPT ![c] = "closed"]
  /\ LET userId == socketToUser[c]
     IN IF userId # NoUser
        THEN /\ activeUsers' = [activeUsers EXCEPT ![userId] = NoSocket]
             /\ socketToUser' = [socketToUser EXCEPT ![c] = NoUser]
        ELSE UNCHANGED <<activeUsers, socketToUser>>
  /\ UNCHANGED <<frvars, last, storevars, fetch, marking, convs, postvars, sending, emitted, acks>>

\* socket.on('sendMessage', data, ack), up to message.save().  receiverId and
\* content are the fields of data; Absent and Missing stand for a field left out.
Missing == "<missing>"
Absent == 0 - 1
Receivers == Ids \cup {Absent}
SocketContents == Contents \cup {Missing}

SocketCheck(c, receiverId, content) ==
  IF socketToUser[c] = NoUser THEN "Not joined"
  ELSE IF receiverId = Absent \/ content = Missing THEN "required"
  ELSE IF Trim(content) = "" THEN "required"
  ELSE "ok"

SocketSendMessage(c, receiverId, content) ==
  /\ conn[c] = "open" /\ sending[c] = NoMsg
  /\ created < MaxSockMsgs
  /\ IF SocketCheck(c, receiverId, content) = "ok"
     THEN /\ Save(NewMessage(created + 1, socketToUser[c], receiverId,
                             Trim(content), "socket"))
          /\ sending' = [sending EXCEPT ![c] = created + 1]
          /\ UNCHANGED acks
     ELSE /\ acks' = [acks EXCEPT ![c] = "fail"]
          /\ UNCHANGED <<storevars, sending>>
  /\ UNCHANGED <<frvars, last, fetch, marking, convs, postvars, conn, activeUsers, socketToUser, emitted>>

\* The rest of the handler, after the save: populate, the two emits, the ack.
\* message.populate(...).populate(...) throws where populate returns a promise
\* (the library version decides), and the catch block then acks a failure.
StoredReceiver(id) ==
  LET i == CHOOSE j \in 1..Len(messages) : messages[j].id = id
  IN messages[i].receiver

\* Mutant: with no socket registered for the receiver, the event goes to the
\* sender's connection.
Emits_Always(c, id, receiverId) ==
  LET receiverSocketId == activeUsers[receiverId]
  IN {[event |-> "receiveMessage",
       to |-> IF receiverSocketId # NoSocket THEN receiverSocketId ELSE c,
       msg |-> id]}
     \cup {[event |-> "messageSent", to |-> c, msg |-> id]}

Emits(c, id, receiverId) ==
  LET receiverSocketId == activeUsers[receiverId]
  IN (IF receiverSocketId # NoSocket
      THEN {[event |-> "receiveMessage", to |-> receiverSocketId, msg |-> id]}
      ELSE {})
     \cup {[event |-> "messageSent", to |-> c, msg |-> id]}

SocketSendEmit(c, populateThrows) ==
  /\ sending[c] # NoMsg
  /\ sending' = [sending EXCEPT ![c] = NoMsg]
  /\ IF populateThrows
     THEN /\ acks' = [acks EXCEPT ![c] = "fail"]
          /\ UNCHANGED emitted
     ELSE /\ emitted' = emitted \cup Emits(c, sending[c], StoredReceiver(sending[c]))
          /\ acks' = [acks EXCEPT ![c] = "ok"]
  /\ UNCHANGED <<frvars, last, storevars, fetch, marking, convs, postvars, conn, activeUsers, socketToUser>>

SockNext ==
  \/ \E c \in Sockets : SocketConnect(c)
  \/ \E c \in Sockets, u \in Users : Join(c, u)
  \/ \E c \in Sockets : Disconnect(c)
  \/ \E c \in Sockets, r \in Receivers, t \in SocketContents : SocketSendMessage(c, r, t)
  \/ \E c \in Sockets, b \in BOOLEAN : SocketSendEmit(c, b)

InitSock == InitMsg

\* Connections joining and leaving, with no message sent
RegNext ==
  \/ \E c \in Sockets : SocketConnect(c)
  \/ \E c \in Sockets, u \in Users : Join(c, u)
  \/ \E c \in Sockets : Disconnect(c)

SpecReg == Init /\ [][RegNext]_vars

\* The same, with every handler whose event has arrived run eventually.
SpecRegFair == Init /\ [][RegNext]_vars /\ WF_vars(RegNext)

SpecSock == InitSock /\ [][SockNext]_vars

\* Two users on the channel: socket sends from one to the other, and the REST
\* fetch of the conversation with the other, first page with the default
\* limit (what the client's poll asks for).
Pair == {1, 2}

OfflineNext ==
  \/ \E c \in Sockets : SocketConnect(c)
  \/ \E c \in Sockets, u \in Pair : Join(c, u)
  \/ \E c \in Sockets : Disconnect(c)
  \/ \E c \in Sockets : \E r \in Pair \ {socketToUser[c]} : SocketSendMessage(c, r, "hi")
  \/ \E c \in Sockets, b \in BOOLEAN : SocketSendEmit(c, b)
  \/ \E me \in Pair : \E other \in Pair \ {me} : FetchFind(me, other, 1, DefaultLimit)
  \/ FetchUpdateMany
  \/ FetchRespond

SpecOffline == Init /\ [][OfflineNext]_vars

\* ============================================================ client send
\* Mutant: the payload the server's handler destructures.
ClientPayload_Contract(me, receiver, content) ==
  [receiverId |-> receiver, content |-> content]

\* Messages page, handleSendMessage: the payload of the socket emit
ClientPayload(me, receiver, content) ==
  [receiverId |-> receiver,
   message |-> [receiver |-> receiver, content |-> content, sender |-> me]]

\* const { receiverId, content } = data || {}: a field the payload lacks is
\* undefined
PayloadReceiver(data) ==
  IF "receiverId" \in DOMAIN data THEN data.receiverId ELSE Absent
PayloadContent(data) ==
  IF "content" \in DOMAIN data THEN data.content ELSE Missing

\* handleSendMessage with the server's handling of its two requests up to
\* their save: the POST /api/messages of sendMessageMutation.mutate and, when
\* the client holds a socket, the sendMessage event.  socket is the client's
\* connection, NoSocket when it has none.
HandleSendMessage(me, socket, selectedConversation, message) ==
  /\ Trim(message) # "" /\ selectedConversation # NoUser
  /\ created < MaxMsgs
  /\ socket # NoSocket => conn[socket] = "open" /\ sending[socket] = NoMsg
  /\ LET messageData == [receiver |-> selectedConversation, content |-> Trim(message)]
         code == PostCheck(me, messageData.receiver, messageData.content)
         posted == IF code = 201
                   THEN Append(messages, NewMessage(created + 1, me, messageData.receiver,
                                                    Trim(messageData.content), "rest"))
                   ELSE messages
         data == ClientPayload(me, messageData.receiver, messageData.content)
         receiverId == PayloadReceiver(data)
         content == PayloadContent(data)
         check == IF socket = NoSocket THEN "no socket"
                  ELSE SocketCheck(socket, receiverId, content)
         id == Len(posted) - Len(messages) + created + 1
     IN /\ last' = Reply("post", code)
        /\ IF check = "ok"
           THEN /\ messages' = Append(posted, NewMessage(id, socketToUser[socket], receiverId,
                                                         Trim(content), "socket"))
                /\ created' = id
                /\ sending' = [sending EXCEPT ![socket] = id]
                /\ UNCHANGED acks
           ELSE /\ messages' = posted
                /\ created' = id - 1
                /\ acks' = IF socket = NoSocket THEN acks
                           ELSE [acks EXCEPT ![socket] = "fail"]
                /\ UNCHANGED sending
  /\ UNCHANGED <<frvars, fetch, marking, convs, postvars, conn, activeUsers, socketToUser,
                 emitted>>

ClientNext ==
  \/ \E c \in Sockets : SocketConnect(c)
  \/ \E c \in Sockets, u \in Users : Join(c, u)
  \/ \E c \in Sockets : Disconnect(c)
  \/ \E me \in Users, c \in Sockets \cup {NoSocket}, to \in Ids, t \in Contents :
       HandleSendMessage(me, c, to, t)

SpecClient == InitMsg /\ [][ClientNext]_vars

\* ======================================================= friend claims
Ops == {"request", "accept", "decline", "remove"}
Pending(a, b) == Has(sentFriendRequests[a], b) /\ Has(friendRequests[b], a)
Friends(a, b) == b \in friends[a] /\ a \in friends[b]
DbUnchanged == UNCHANGED <<friends, friendRequests, sentFriendRequests>>

\* C1: once no friend handler is in flight, B is in A's friends list if and
\* only if A is in B's friends list.
C1_FriendshipSymmetric ==
  Quiescent => \A a, b \in Users : b \in friends[a] <=> a \in friends[b]

\* C2: once no friend handler is in flight, two users who list each other as
\* friends hold no pending request entry for each other in either list.
C2_NoPendingBetweenFriends ==
  Quiescent =>
    \A a, b \in Users :
      Friends(a, b) =>
        ~Has(sentFriendRequests[a], b) /\ ~Has(friendRequests[a], b)

\* C3: when B's accept of A's request has answered success (and nothing else
\* has answered or is in flight since), A and B list each other as friends and
\* neither holds a pending entry for the other in either direction.
C3_AcceptPostcondition ==
  \A a, b \in Users :
    (Quiescent /\ last = Response("accept", b, a, 200)) =>
      /\ Friends(a, b)
      /\ ~Has(sentFriendRequests[a], b) /\ ~Has(friendRequests[b], a)
      /\ ~Has(sentFriendRequests[b], a) /\ ~Has(friendRequests[a], b)

\* C4: a send-request from A to B handled while A's record shows B as friend,
\* as the target of a sent request or as the sender of a received request is
\* answered 400, starts no update and changes no user record.
C4_DuplicateRequestRejected ==
  [][\A a \in Users, b \in Users :
       (RequestRead(a, b)
          /\ (b \in friends[a] \/ Has(sentFriendRequests[a], b)
                \/ Has(friendRequests[a], b)))
       => (last' = Response("request", a, b, 400) /\ reqs' = reqs /\ DbUnchanged)]_vars

C4_Witness ==
  \E a, b \in Users :
    /\ a # b /\ Pending(a, b)
    /\ last = Response("request", a, b, 400)

\* C5: an accept or decline naming sender S, handled while the caller's
\* friendRequests holds no entry from S, is answered with an error, starts no
\* update and changes no user record.
C5_MissingRequestRejected ==
  [][\A me \in Users, id \in Ids :
       ((AcceptRead(me, id) \/ DeclineRead(me, id))
          /\ ~Has(friendRequests[me], id))
       => (/\ last'.status \in {400, 404}
           /\ last'.op \in {"accept", "decline"} /\ last'.me = me /\ last'.other = id
           /\ reqs' = reqs /\ DbUnchanged)]_vars

C5_Witness ==
  /\ last.op \in {"accept", "decline"} /\ last.status = 400
  /\ last.other \in Users
  /\ ~Has(friendRequests[last.me], last.other)
  /\ \E u \in Users : friendRequests[u] # <<>>

\* C6: a request whose target is the caller is answered 400, and no user is
\* ever in their own friends, friendRequests or sentFriendRequests list.
C6_NoSelfReference ==
  /\ \A u \in Users :
       u \notin friends[u] /\ ~Has(friendRequests[u], u)
         /\ ~Has(sentFriendRequests[u], u)
  /\ (last.op = "request" /\ last.me = last.other) => last.status = 400
  /\ \A r \in InFlight : r.op = "request" => r.me # r.other

C6_Witness ==
  \E u \in Users : last = Response("request", u, u, 400)

\* C7: B enters A's friends list only by an update of an accept handler
\* called by A or B against the other; an accept goes on to its updates only
\* if the caller's friendRequests held an entry from the other user when it
\* was read; and an entry from A enters B's friendRequests only by an update
\* of a send-request handler called by A against B.
C7_FriendshipConsented ==
  [][/\ \A a, b \in Users :
          (b \notin friends[a] /\ b \in friends'[a]) =>
            \E r \in InFlight : r.op = "accept" /\ {r.me, r.other} = {a, b}
     /\ \A me \in Users, id \in Ids :
          (AcceptRead(me, id) /\ reqs' # reqs) => Has(friendRequests[me], id)
     /\ \A a, b \in Users :
          Count(friendRequests'[b], a) > Count(friendRequests[b], a) =>
            \E r \in InFlight : r.op = "request" /\ r.me = a /\ r.other = b]_vars

C7_Witness ==
  \E a, b \in Users :
    a # b /\ Friends(a, b) /\ last = Response("accept", b, a, 200)

\* C8 (as claimed): whenever a request A->B is pending, some operation that
\* A can call passes its checks and its updates remove the entry from A's
\* sentFriendRequests and from B's friendRequests.
C8_SenderCanCancel ==
  \A a, b \in Users :
    Pending(a, b) =>
      \E op \in Ops, id \in Ids :
        /\ Check(op, a, id, FindById(a)) = 200
        /\ LET db == Effect(op, "target", Effect(op, "current", Db, a, id), a, id)
           IN ~Has(db.sentFriendRequests[a], b) /\ ~Has(db.friendRequests[b], a)

\* C8 (amended): an entry A->B leaves A's sentFriendRequests or B's
\* friendRequests only by an update of an accept or decline handler called by
\* the receiver B against A; no handler called by the sender removes it.
C8_OnlyReceiverEndsPending ==
  [][\A a, b \in Users :
       (\/ Has(sentFriendRequests[a], b) /\ ~Has(sentFriendRequests'[a], b)
        \/ Has(friendRequests[b], a) /\ ~Has(friendRequests'[b], a))
       => \E r \in InFlight :
            r.op \in {"accept", "decline"} /\ r.me = b /\ r.other = a]_vars

C8_Witness ==
  \E a, b \in Users :
    /\ a # b /\ last = Response("decline", b, a, 200)
    /\ ~Has(sentFriendRequests[a], b) /\ ~Has(friendRequests[b], a)

\* ====================================================== message claims
\* C9: every stored message between two different users was stored while the
\* receiver was in the sender's friends list, on the REST path and on the
\* socket path alike.
C9_MessagesOnlyBetweenFriends ==
  \A i \in 1..Len(messages) :
    messages[i].sender # messages[i].receiver => messages[i].friendsAtSend

\* C10: when A's fetch of the conversation with B has run its updateMany,
\* every message from B to A is read, A's conversation row for B (if any)
\* reports unreadCount 0 and the unread-count query counts no message of B;
\* and this stays so in every step that changes the message collection
\* without storing a new message from B to A (NoneUnread reads nothing but the
\* collection, so the other steps keep it as it is).
\* C11: the row that GET /conversations returns to U for a counterparty P
\* with stored messages between them names as lastMessage a message between
\* U and P whose createdAt no other message between them exceeds, whatever
\* else the store holds.
C11_LastMessageIsNewest ==
  \A p \in Users :
    (convs.to # NoUser /\ Group(convs.to, p) # {}) =>
      \E row \in convs.rows :
        /\ row.user = p
        /\ \E i \in Group(convs.to, p) :
             /\ messages[i].id = row.lastMessage
             /\ \A j \in Group(convs.to, p) :
                  messages[j].createdAt <= messages[i].createdAt

\* two messages between U and P with a message between U and a third user
\* stored in between
C11_Witness ==
  /\ convs.to # NoUser
  /\ \E p \in Users \ {convs.to}, q \in Users \ {convs.to} :
       /\ p # q
       /\ \E i \in Group(convs.to, p), k \in Group(convs.to, q), j \in Group(convs.to, p) :
            i < k /\ k < j
       /\ \E row \in convs.rows :
            /\ row.user = p
            /\ row.lastMessage = messages[Len(messages)].id

\* C12: what GET /conversations returns to U has exactly one row for each
\* user P with a stored message between U and P, no other row, and each row's
\* unreadCount is the number of stored unread messages from P to U.
C12_OneRowPerCounterparty ==
  convs.to # NoUser =>
    /\ \A p \in Users :
         Cardinality({row \in convs.rows : row.user = p})
           = IF Group(convs.to, p) # {} THEN 1 ELSE 0
    /\ \A row \in convs.rows :
         /\ row.user \in Users
         /\ row.unreadCount =
              Cardinality({i \in 1..Len(messages) :
                             /\ messages[i].sender = row.user
                             /\ messages[i].receiver = convs.to
                             /\ ~messages[i].isRead})

\* two rows, one with unread messages in both directions
C12_Witness ==
  /\ convs.to # NoUser
  /\ Cardinality(convs.rows) = 2
  /\ \E row \in convs.rows :
       /\ row.user # convs.to /\ row.unreadCount = 1
       /\ \E i \in Group(convs.to, row.user) :
            messages[i].sender = convs.to /\ ~messages[i].isRead

\* C13: in every step, a message that stays stored keeps its sender, its
\* receiver and its content, and stays read if it was read.
C13_ReadFlagOneWay ==
  [][\A i \in 1..Len(messages), j \in 1..Len(messages') :
       messages'[j].id = messages[i].id =>
         /\ messages[i].isRead => messages'[j].isRead
         /\ messages'[j].sender = messages[i].sender
         /\ messages'[j].receiver = messages[i].receiver
         /\ messages'[j].content = messages[i].content]_vars

\* a message between two users is read, and another message has been
\* deleted since
C13_Witness ==
  /\ last = Reply("delete", 200)
  /\ Len(messages) < created
  /\ \E i \in 1..Len(messages) :
       messages[i].isRead /\ messages[i].sender # messages[i].receiver

\* C14: a delete answers 200 and removes the message only for its sender, and
\* the mark-as-read endpoint goes on to set the flag only for its receiver; a
\* delete by anyone else and a mark-as-read by anyone else on a stored message
\* are answered 403 and leave the store as it is.  In every step a message
\* leaves the store only by a delete called by its sender.
C14_OnlySenderDeletesOnlyReceiverMarks ==
  [][/\ \A me \in Users, id \in 0..created :
          (DeleteMessage(me, id) /\ Stored(id) /\ FindMessage(id).sender # me) =>
            (last' = Reply("delete", 403) /\ messages' = messages)
     /\ \A me \in Users, id \in 0..created :
          (MarkAsReadFind(me, id) /\ Stored(id) /\ FindMessage(id).receiver # me) =>
            (last' = Reply("read", 403) /\ messages' = messages /\ marking' = marking)
     /\ \A i \in 1..Len(messages) :
          (\A j \in 1..Len(messages') : messages'[j].id # messages[i].id) =>
            DeleteMessage(messages[i].sender, messages[i].id)
     /\ \A i \in 1..Len(messages), j \in 1..Len(messages') :
          (/\ messages'[j].id = messages[i].id
           /\ ~messages[i].isRead /\ messages'[j].isRead) =>
            marking.me = messages[i].receiver]_vars

\* the receiver was refused the delete of a message that is still stored
C14_Witness ==
  /\ last = Reply("delete", 403)
  /\ \E i \in 1..Len(messages) : messages[i].sender # messages[i].receiver

\* ========================================================= post claims
\* A like request of user me on post p that runs with no other handler in
\* between its findById and its save.
LikeRequest(p, me) ==
  IF LikeIndex(p.likes, me) > 0
  THEN SaveSplice(p, ToggleLike(p.likes, me))
  ELSE SavePush(p, me)
LikeSet(p) == {p.likes[i] : i \in 1..Len(p.likes)}

\* C15: for every stored post and every user, two like requests of that user
\* run one after the other leave the post with the set of liking users and
\* the number of likes it had.
C15_LikeTwiceRestores ==
  \A i \in 1..Len(posts), u \in Users :
    LET twice == LikeRequest(LikeRequest(posts[i], u), u)
    IN /\ LikeSet(twice) = LikeSet(posts[i])
       /\ Len(twice.likes) = Len(posts[i].likes)

\* C16: no post's likes list holds two entries of the same user.
C16_LikesUniquePerUser ==
  \A i \in 1..Len(posts), u \in Users : Count(posts[i].likes, u) <= 1

\* C17: a post listing returned to R holds a post of author X only if R = X,
\* or X is in R's friends list and the post is public or friends, or the
\* listing is the user listing and the post is public.
Visible(p, r, route) ==
  \/ p.author = r
  \/ p.author \in friends[r] /\ p.privacy \in {"public", "friends"}
  \/ route = "user" /\ p.privacy = "public"

C17_PostVisibility ==
  listed.to # NoUser =>
    \A id \in listed.posts :
      /\ PostStored(id)
      /\ Visible(FindPost(id), listed.to, listed.route)
      /\ FindPost(id).privacy = "private" => FindPost(id).author = listed.to

\* the feed of a friend of X shows X's friends post and not X's private post
C17_Witness ==
  /\ listed.to # NoUser /\ listed.route = "feed"
  /\ \E i, j \in 1..Len(posts) :
       /\ posts[i].author = posts[j].author
       /\ posts[i].author \in friends[listed.to]
       /\ posts[i].privacy = "friends" /\ posts[j].privacy = "private"
       /\ posts[i].id \in listed.posts /\ posts[j].id \notin listed.posts
       /\ Cardinality(listed.posts) = 1

FromTo(b, a) == {i \in 1..Len(messages) :
                   messages[i].sender = b /\ messages[i].receiver = a}
NoneUnread(a, b) ==
  /\ \A i \in FromTo(b, a) : messages[i].isRead
  /\ Group(a, b) # {} => ConversationRow(a, b).unreadCount = 0
  /\ \A i \in UnreadCounted(a) : messages[i].sender # b

C10_UnreadAccounting ==
  [][/\ (fetch.pc = "update" /\ fetch'.pc = "count")
          => NoneUnread(fetch.me, fetch.other)'
     /\ messages' # messages =>
          \A a, b \in Users :
            (/\ Cardinality(FromTo(b, a)') <= Cardinality(FromTo(b, a))
             /\ NoneUnread(a, b))
            => NoneUnread(a, b)']_vars

C10_Witness ==
  /\ fetch.pc = "count"
  /\ fetch.me # fetch.other
  /\ Cardinality(FromTo(fetch.other, fetch.me)) >= 2
  /\ NoneUnread(fetch.me, fetch.other)
  /\ \E row \in Conversations(fetch.me) : row.user = fetch.other

\* ======================================================= channel claims
\* C18: activeUsers holds one socket or none for each user id, and a join of
\* user U on connection c leaves c registered for U, whatever was registered
\* for U before.
C18_OneHandlePerUser ==
  [][/\ activeUsers' \in [Ids -> Sockets \cup {NoSocket}]
     /\ \A c \in Sockets, u \in Users : Join(c, u) => activeUsers'[u] = c]_vars

\* U joined on one connection, then on the other, which is now registered
C18_Witness ==
  \E u \in Users, c1 \in Sockets, c2 \in Sockets :
    /\ c1 # c2 /\ conn[c1] = "open" /\ conn[c2] = "open"
    /\ socketToUser[c1] = u /\ socketToUser[c2] = u
    /\ activeUsers[u] = c2

\* C19: once connection c has disconnected, no user id in activeUsers maps to
\* c and socketToUser holds nothing for c.
C19_DisconnectClearsRegistry ==
  \A c \in Sockets :
    conn[c] = "closed" =>
      /\ socketToUser[c] = NoUser
      /\ \A u \in Users : activeUsers[u] # c

\* C20: the step that ends the handling of a stored sendMessage of connection
\* c emits messageSent for that message to c, emits receiveMessage for it to
\* the socket registered for the receiver if and only if one is registered,
\* and emits nothing else; the message is in the store by then and had not
\* been emitted before.
C20_SendEmits ==
  [][\A c \in Sockets :
       (sending[c] # NoMsg /\ sending'[c] = NoMsg) =>
         LET id == sending[c]
             receiverSocketId == activeUsers[StoredReceiver(id)]
         IN /\ Stored(id)
            /\ \A e \in emitted : e.msg # id
            /\ emitted' \ emitted =
                 {[event |-> "messageSent", to |-> c, msg |-> id]}
                 \cup (IF receiverSocketId # NoSocket
                       THEN {[event |-> "receiveMessage", to |-> receiverSocketId,
                              msg |-> id]}
                       ELSE {})]_vars

\* ---------------------------------------------------------------- C21
\* A stored message whose handling is over and for which no receiveMessage
\* was emitted.
Handled(id) == Stored(id) /\ \A c \in Sockets : sending[c] # id
Unpushed(id) ==
  Handled(id) /\ \A e \in emitted : ~(e.event = "receiveMessage" /\ e.msg = id)

C22_FailureLeavesNoTrace ==
  [][\A c \in Sockets :
       /\ (sending[c] # NoMsg /\ sending'[c] = NoMsg) => acks'[c] # "fail"
       /\ (acks'[c] = "fail" /\ acks[c] # "fail") =>
            /\ sending[c] = NoMsg
            /\ messages' = messages
            /\ emitted' = emitted]_vars

\* ---------------------------------------------------------------- C23
\* A presence event for user u among the events the server emitted.
PresenceEmitted(event, u) == \E e \in emitted : e.event = event /\ e.msg = u
JoinedAs(u) == \E c \in Sockets : conn[c] = "open" /\ socketToUser[c] = u
LeftAs(u) == \E c \in Sockets : conn[c] = "closed" /\ activeUsers[u] = NoSocket

\* C23: once a connection has joined as user u, a userOnline event for u is
\* eventually emitted, and once u's connection has disconnected a userOffline
\* event for u is eventually emitted.
C23_PresencePushed ==
  \A u \in Users :
    /\ JoinedAs(u) ~> PresenceEmitted("userOnline", u)
    /\ (JoinedAs(u) /\ <>LeftAs(u)) ~> PresenceEmitted("userOffline", u)

\* ---------------------------------------------------------------- C24
\* The stored state of the pair a, b is consistent: the friend lists mirror
\* each other, every pending entry has its twin on the other side, and no
\* pending entry remains between friends.
PairConsistent(a, b) ==
  /\ b \in friends[a] <=> a \in friends[b]
  /\ Has(sentFriendRequests[a], b) <=> Has(friendRequests[b], a)
  /\ Has(sentFriendRequests[b], a) <=> Has(friendRequests[a], b)
  /\ Friends(a, b) =>
       /\ ~Has(sentFriendRequests[a], b) /\ ~Has(friendRequests[b], a)
       /\ ~Has(sentFriendRequests[b], a) /\ ~Has(friendRequests[a], b)

\* B's decline of A's request answered last and with success, although the
\* accept of the same request went through: the two handlers overlapped.
AcceptDeclineRaced(a, b) ==
  /\ Quiescent /\ last = Response("decline", b, a, 200)
  /\ b \in friends[a] \/ a \in friends[b]

C25_RegistryBidirectional ==
  \A u \in Users, c \in Sockets : activeUsers[u] = c <=> socketToUser[c] = u

\* ---------------------------------------------------------------- C26
\* C26: the disconnect of a connection other than the one registered for user
\* u leaves u registered with the connection it had (so that a message sent
\* to u afterwards is pushed to that connection).
C26_StaleDisconnectKeepsLive ==
  [][\A u \in Users, c1 \in Sockets :
       (/\ conn[c1] = "open" /\ conn'[c1] = "closed"
        /\ activeUsers[u] # NoSocket /\ activeUsers[u] # c1)
       => activeUsers'[u] = activeUsers[u]]_vars

\* ---------------------------------------------------------------- C27
\* C27: once no friend handler is in flight, A's sentFriendRequests holds an
\* entry to B if and only if B's friendRequests holds an entry from A.
C27_PendingMirrored ==
  Quiescent =>
    \A a, b \in Users : Has(sentFriendRequests[a], b) <=> Has(friendRequests[b], a)

\* ---------------------------------------------------------------- C28
\* C28: in every state A's sentFriendRequests holds at most one entry to B and
\* B's friendRequests holds at most one entry from A.
C28_OnePendingPerPair ==
  \A a, b \in Users :
    Count(sentFriendRequests[a], b) <= 1 /\ Count(friendRequests[b], a) <= 1

\* ---------------------------------------------------------------- C29
\* C29: every message whose isRead flag a conversation fetch flips is among
\* the messages that fetch found for its page.
C29_MarksOnlyWhatItShows ==
  [][\A i \in 1..Len(messages) :
       (fetch.pc = "update" /\ ~messages[i].isRead /\ messages'[i].isRead)
       => messages[i].id \in fetch.shown]_vars

TypeOK == \A u \in Users : friends[u] \subseteq Users
====
